---- MODULE Spec2Model ----
(***************************************************************************)
(* Model of send_alerts.py: the driver main(), the retrying delivery       *)
(* routine send_email() and the template rendering done for every row.     *)
(* Text is a sequence of one-character strings, so that the placeholder    *)
(* scanner of string.Template works on characters as the code does.        *)
(*                                                                         *)
(* Environment: the four SMTP operations of an attempt (the constructor's  *)
(* connect, starttls, login, send_message) each either return or raise an  *)
(* Exception.  Leaving the with-block closes the session; the building of  *)
(* the EmailMessage, the reading of the files and the parsing of SMTP_PORT *)
(* are taken to return normally.                                           *)
(***************************************************************************)
EXTENDS Integers, Sequences, FiniteSets, TLC

\* ------------------------------------------------------------------ bounds
MaxRows == 2
MaxPieces == 3

\* ------------------------------------------------------- program constants
RETRY_COUNT == 3
RETRY_DELAY == 5

\* --------------------------------------------------------------- text
\* Python's None; not a text (its only element is not a character).
None == <<"<None>">>

LowerLetters ==
  {"a","b","c","d","e","f","g","h","i","j","k","l","m",
   "n","o","p","q","r","s","t","u","v","w","x","y","z"}
UpperLetters ==
  {"A","B","C","D","E","F","G","H","I","J","K","L","M",
   "N","O","P","Q","R","S","T","U","V","W","X","Y","Z"}
Digits == {"0","1","2","3","4","5","6","7","8","9"}

\* [_a-z] and [_a-z0-9] under re.IGNORECASE
IdStart == LowerLetters \cup UpperLetters \cup {"_"}
IdCont == IdStart \cup Digits

\* Variant of Truthy: only the empty text is false, None is not.
TruthyNotEmpty(v) == v /= <<>>

\* Truthiness of a str-or-None value, as tested by `or` and `not`.
Truthy(v) == v /= None /\ v /= <<>>

\* a or b
PyOr(a, b) == IF Truthy(a) THEN a ELSE b

\* row.get(key) / row.get(key, default)
Get(row, key, default) == IF key \in DOMAIN row THEN row[key] ELSE default

\* column and variable names
K_contact_email == <<"c","o","n","t","a","c","t","_","e","m","a","i","l">>
K_email == <<"e","m","a","i","l">>
K_contact == <<"c","o","n","t","a","c","t">>
K_vendor == <<"v","e","n","d","o","r">>
K_score == <<"s","c","o","r","e">>
K_avg_delivery_lag ==
  <<"a","v","g","_","d","e","l","i","v","e","r","y","_","l","a","g">>
K_late_po_pct == <<"l","a","t","e","_","p","o","_","p","c","t">>
K_price_cv == <<"p","r","i","c","e","_","c","v">>
K_flag == <<"f","l","a","g">>

UnknownVendor ==
  <<"U","n","k","n","o","w","n"," ","V","e","n","d","o","r">>

\* The mapping built for every row (the dict `vars`).
TemplateVars(row, vendor_column) ==
  (K_vendor :> Get(row, vendor_column, UnknownVendor)) @@
  (K_score :> Get(row, K_score, <<>>)) @@
  (K_avg_delivery_lag :> Get(row, K_avg_delivery_lag, <<>>)) @@
  (K_late_po_pct :> Get(row, K_late_po_pct, <<>>)) @@
  (K_price_cv :> Get(row, K_price_cv, <<>>)) @@
  (K_flag :> Get(row, K_flag, <<>>))

\* str(v)
Str(v) == IF v = None THEN <<"N","o","n","e">> ELSE v

\* Last index of the identifier that starts at i (t[i] is in IdStart).
RECURSIVE IdEnd(_, _)
IdEnd(t, i) ==
  IF i + 1 <= Len(t) /\ t[i + 1] \in IdCont THEN IdEnd(t, i + 1) ELSE i

\* Outcome of a rendering that raised.
KeyError == <<"<KeyError>">>
ValueError == <<"<ValueError>">>
Raised(r) == r = KeyError \/ r = ValueError

\* Concatenation that propagates an exception raised in either part.
Cat(a, b) == IF Raised(a) THEN a ELSE IF Raised(b) THEN b ELSE a \o b

\* Template.substitute from position i on: the strict variant, which raises
\* on a placeholder without a value and on an ill-formed delimiter.
RECURSIVE StrictFrom(_, _, _)
StrictFrom(t, mapping, i) ==
  IF i > Len(t) THEN <<>>
  ELSE IF t[i] /= "$" THEN Cat(<<t[i]>>, StrictFrom(t, mapping, i + 1))
  ELSE IF i + 1 <= Len(t) /\ t[i + 1] = "$"
    THEN Cat(<<"$">>, StrictFrom(t, mapping, i + 2))
  ELSE IF i + 1 <= Len(t) /\ t[i + 1] \in IdStart
    THEN LET j == IdEnd(t, i + 1)
             named == SubSeq(t, i + 1, j)
         IN Cat(IF named \in DOMAIN mapping
                  THEN Str(mapping[named]) ELSE KeyError,
                StrictFrom(t, mapping, j + 1))
  ELSE IF /\ i + 2 <= Len(t)
          /\ t[i + 1] = "{"
          /\ t[i + 2] \in IdStart
          /\ IdEnd(t, i + 2) + 1 <= Len(t)
          /\ t[IdEnd(t, i + 2) + 1] = "}"
    THEN LET j == IdEnd(t, i + 2)
             braced == SubSeq(t, i + 2, j)
         IN Cat(IF braced \in DOMAIN mapping
                  THEN Str(mapping[braced]) ELSE KeyError,
                StrictFrom(t, mapping, j + 2))
  ELSE ValueError

\* Template.safe_substitute from position i on: re.sub over the pattern
\*   \$(?: (\$) | ([_a-z][_a-z0-9]*) | {([_a-z][_a-z0-9]*)} | () )
\* with the alternatives tried in this order at every "$".
RECURSIVE SafeFrom(_, _, _)
SafeFrom(t, mapping, i) ==
  IF i > Len(t) THEN <<>>
  ELSE IF t[i] /= "$" THEN Cat(<<t[i]>>, SafeFrom(t, mapping, i + 1))
  ELSE IF i + 1 <= Len(t) /\ t[i + 1] = "$"
    THEN Cat(<<"$">>, SafeFrom(t, mapping, i + 2))
  ELSE IF i + 1 <= Len(t) /\ t[i + 1] \in IdStart
    THEN LET j == IdEnd(t, i + 1)
             named == SubSeq(t, i + 1, j)
         IN Cat(IF named \in DOMAIN mapping
                  THEN Str(mapping[named]) ELSE SubSeq(t, i, j),
                SafeFrom(t, mapping, j + 1))
  ELSE IF /\ i + 2 <= Len(t)
          /\ t[i + 1] = "{"
          /\ t[i + 2] \in IdStart
          /\ IdEnd(t, i + 2) + 1 <= Len(t)
          /\ t[IdEnd(t, i + 2) + 1] = "}"
    THEN LET j == IdEnd(t, i + 2)
             braced == SubSeq(t, i + 2, j)
         IN Cat(IF braced \in DOMAIN mapping
                  THEN Str(mapping[braced]) ELSE SubSeq(t, i, j + 1),
                SafeFrom(t, mapping, j + 2))
  ELSE Cat(<<"$">>, SafeFrom(t, mapping, i + 1))

\* template.substitute(vars): what a strict rendering would do.
substitute(t, mapping) == StrictFrom(t, mapping, 1)

\* template.safe_substitute(vars)
safe_substitute(t, mapping) == SafeFrom(t, mapping, 1)

\* ------------------------------------------------------------ the run
VARIABLES
  env,          \* environment variables: name -> text or None
  args,         \* parsed command line
  files,        \* which of the two input files exist, and their contents
  pc,           \* position of the single thread of control
  template,     \* the loaded template text (None before load_template)
  idx,          \* rows of the reader consumed so far
  sent, failed, \* the two counters of main
  exit_code,    \* process exit status (-1 while the process runs)
  to_addr, subject, body,   \* locals of main for the current row
  msg,          \* the EmailMessage of the current send_email call
  attempt,      \* loop variable of send_email
  exc,          \* whether the with-block is left by an exception
  ok,           \* last return of send_email: "True", "False"; "None" before one
  open,         \* SMTP sessions currently open
  connects,     \* SMTP connections attempted during the whole run
  tries,        \* connections attempted by the current send_email call
  sleeps,       \* attempt numbers after which time.sleep ran, this call
  waited,       \* seconds slept by the current send_email call
  delivered,    \* successful send_message calls of the current call
  outcomes,     \* per attempt of the current call: "ok" or the failing step
  dry_printed,  \* messages echoed by the dry-run branch
  body2         \* result of rendering `body` once more (render harness)

vars == <<env, args, files, pc, template, idx, sent, failed, exit_code,
          to_addr, subject, body, msg, attempt, exc, ok, open, connects,
          tries, sleeps, waited, delivered, outcomes, dry_printed, body2>>

cfgVars == <<env, args, files>>
callVars == <<msg, attempt, exc, ok, tries, sleeps, waited, delivered, outcomes>>
rowVars == <<to_addr, subject, body>>

\* ---- str.lower() on the characters an environment value may hold
UpperSeq == <<"A","B","C","D","E","F","G","H","I","J","K","L","M",
              "N","O","P","Q","R","S","T","U","V","W","X","Y","Z">>
LowerSeq == <<"a","b","c","d","e","f","g","h","i","j","k","l","m",
              "n","o","p","q","r","s","t","u","v","w","x","y","z">>
LowerChar(c) ==
  IF c \in UpperLetters
    THEN LowerSeq[CHOOSE i \in 1..26 : UpperSeq[i] = c]
    ELSE c
Lower(s) == [i \in 1..Len(s) |-> LowerChar(s[i])]

\* os.getenv(name, default)
getenv(e, name, default) == IF e[name] = None THEN default ELSE e[name]

\* ---- lines 64-71: the resolved configuration
smtp_host == env["SMTP_HOST"]
smtp_user == env["SMTP_USER"]
smtp_pass == env["SMTP_PASS"]
from_email == PyOr(env["FROM_EMAIL"], smtp_user)
\* Variant of dry_env: the value is compared without .lower().
dry_env_NoLower ==
  getenv(env, "DRY_RUN", <<>>) \in
    {<<"1">>, <<"t","r","u","e">>, <<"y","e","s">>}

dry_env ==
  Lower(getenv(env, "DRY_RUN", <<>>)) \in
    {<<"1">>, <<"t","r","u","e">>, <<"y","e","s">>}
dry_run == args.dry_run \/ dry_env

\* ---- lines 94-106: what main derives from one row
Recipient(row) ==
  PyOr(PyOr(Get(row, args.to_column, None), Get(row, K_email, None)),
       Get(row, K_contact, None))
Vendor(row) == Get(row, args.vendor_column, UnknownVendor)
Subject(row) ==
  <<"A","c","t","i","o","n"," ","R","e","q","u","i","r","e","d"," ",
    "V","e","n","d","o","r"," ","P","e","r","f","o","r","m","a","n","c","e"," ">>
  \o Str(Vendor(row)) \o <<" ","F","l","a","g"," ">>
  \o Str(TemplateVars(row, args.vendor_column)[K_flag])
Body(row) == safe_substitute(template, TemplateVars(row, args.vendor_column))

\* ---- inputs of the run
K_to == <<"t","o">>
T_a == <<"a","@","x">>
T_b == <<"b","@","x">>
T_c == <<"c","@","x">>
RowSet ==
  { (K_contact_email :> T_a) @@ (K_vendor :> <<"A","c","m","e">>)
       @@ (K_flag :> <<"R","E","D">>),
    (K_contact_email :> <<>>) @@ (K_email :> T_b)
       @@ (K_vendor :> <<"B","o","l","t">>),
    (K_to :> T_c) @@ (K_contact :> T_c) @@ (K_score :> <<"7">>),
    (K_contact_email :> <<>>) @@ (K_email :> <<>>) @@ (K_contact :> <<>>)
       @@ (K_vendor :> <<"D","y","n">>) }

RECURSIVE SeqsUpTo(_, _)
SeqsUpTo(S, n) ==
  IF n = 0 THEN {<<>>}
  ELSE LET shorter == SeqsUpTo(S, n - 1)
       IN shorter \cup {Append(q, x) : q \in {r \in shorter : Len(r) = n - 1}, x \in S}

MainTemplate ==
  <<"D","e","a","r"," ","$","v","e","n","d","o","r",":"," ",
    "$","{","f","l","a","g","}"," ","$","n","o","p","e"," ","$","$","5">>

EnvSet ==
  [ SMTP_HOST : {None, <<>>, <<"s","m","t","p",".","x">>},
    SMTP_USER : {None, <<"u">>},
    SMTP_PASS : {None, <<"p">>},
    FROM_EMAIL : {None},
    DRY_RUN : {None, <<"1">>, <<"T","r","u","e">>, <<"y","e","s">>, <<"0">>} ]

ArgsSet ==
  [ dry_run : BOOLEAN,
    to_column : {K_contact_email, K_to},
    vendor_column : {K_vendor} ]

FilesSet ==
  [ input_exists : BOOLEAN,
    template_exists : BOOLEAN,
    template_text : {MainTemplate},
    rows : SeqsUpTo(RowSet, MaxRows) ]

NoCall ==
  /\ msg = None
  /\ attempt = 0
  /\ exc = FALSE
  /\ ok = "None"
  /\ tries = 0
  /\ sleeps = <<>>
  /\ waited = 0
  /\ delivered = 0
  /\ outcomes = <<>>

\* The state when main reaches line 73.
Init ==
  /\ env \in EnvSet
  /\ args \in ArgsSet
  /\ files \in FilesSet
  /\ pc = "check_config"
  /\ template = None
  /\ idx = 0
  /\ sent = 0
  /\ failed = 0
  /\ exit_code = -1
  /\ to_addr = None
  /\ subject = None
  /\ body = None
  /\ body2 = None
  /\ NoCall
  /\ open = 0
  /\ connects = 0
  /\ dry_printed = 0

\* Variant of CheckConfig: missing settings abort a dry run too.
CheckConfig_NoExempt ==
  /\ pc = "check_config"
  /\ IF ~Truthy(smtp_host) \/ ~Truthy(smtp_user) \/ ~Truthy(smtp_pass)
       THEN pc' = "exit" /\ exit_code' = 2
       ELSE pc' = "check_input" /\ UNCHANGED exit_code
  /\ UNCHANGED <<cfgVars, template, idx, sent, failed, rowVars, callVars,
                 open, connects, dry_printed, body2>>

\* lines 73-76
CheckConfig ==
  /\ pc = "check_config"
  /\ IF (~Truthy(smtp_host) \/ ~Truthy(smtp_user) \/ ~Truthy(smtp_pass))
        /\ ~dry_run
       THEN pc' = "exit" /\ exit_code' = 2
       ELSE pc' = "check_input" /\ UNCHANGED exit_code
  /\ UNCHANGED <<cfgVars, template, idx, sent, failed, rowVars, callVars,
                 open, connects, dry_printed, body2>>

\* lines 78-80
CheckInput ==
  /\ pc = "check_input"
  /\ IF ~files.input_exists
       THEN pc' = "exit" /\ exit_code' = 2
       ELSE pc' = "check_template" /\ UNCHANGED exit_code
  /\ UNCHANGED <<cfgVars, template, idx, sent, failed, rowVars, callVars,
                 open, connects, dry_printed, body2>>

\* lines 82-89
CheckTemplate ==
  /\ pc = "check_template"
  /\ IF ~files.template_exists
       THEN /\ pc' = "exit"
            /\ exit_code' = 2
            /\ UNCHANGED <<template, sent, failed>>
       ELSE /\ pc' = "next_row"
            /\ template' = files.template_text
            /\ sent' = 0
            /\ failed' = 0
            /\ UNCHANGED exit_code
  /\ UNCHANGED <<cfgVars, idx, rowVars, callVars,
                 open, connects, dry_printed, body2>>

\* lines 93-123: one iteration of the row loop up to the delivery call
ProcessRow ==
  /\ pc = "next_row"
  /\ idx < Len(files.rows)
  /\ LET row == files.rows[idx + 1] IN
     /\ idx' = idx + 1
     /\ to_addr' = Recipient(row)
     /\ subject' = Subject(row)
     /\ body' = Body(row)
     /\ IF ~Truthy(Recipient(row))
          THEN /\ failed' = failed + 1
               /\ pc' = "next_row"
               /\ UNCHANGED <<sent, dry_printed, callVars>>
          ELSE IF dry_run
          THEN /\ sent' = sent + 1
               /\ dry_printed' = dry_printed + 1
               /\ pc' = "next_row"
               /\ UNCHANGED <<failed, callVars>>
          ELSE \* call send_email: lines 34-40
               /\ msg' = [From |-> from_email, To |-> Recipient(row),
                          Subject |-> Subject(row), content |-> Body(row)]
               /\ attempt' = 1
               /\ exc' = FALSE
               /\ ok' = "None"
               /\ tries' = 0
               /\ sleeps' = <<>>
               /\ waited' = 0
               /\ delivered' = 0
               /\ outcomes' = <<>>
               /\ pc' = "connect"
               /\ UNCHANGED <<sent, failed, dry_printed>>
  /\ UNCHANGED <<cfgVars, template, exit_code, open, connects, body2>>

\* line 42: smtplib.SMTP(host, port, timeout=30) connects, or raises
Connect ==
  /\ pc = "connect"
  /\ tries' = tries + 1
  /\ connects' = connects + 1
  /\ \/ /\ open' = open + 1
        /\ pc' = "starttls"
        /\ UNCHANGED outcomes
     \/ /\ outcomes' = Append(outcomes, "connect")
        /\ pc' = "except"
        /\ UNCHANGED open
  /\ UNCHANGED <<cfgVars, template, idx, sent, failed, exit_code, rowVars,
                 msg, attempt, exc, ok, sleeps, waited, delivered,
                 dry_printed, body2>>

\* line 43
Starttls ==
  /\ pc = "starttls"
  /\ \/ /\ pc' = "login"
        /\ UNCHANGED <<exc, outcomes>>
     \/ /\ exc' = TRUE
        /\ outcomes' = Append(outcomes, "starttls")
        /\ pc' = "with_exit"
  /\ UNCHANGED <<cfgVars, template, idx, sent, failed, exit_code, rowVars,
                 msg, attempt, ok, tries, sleeps, waited, delivered,
                 open, connects, dry_printed, body2>>

\* line 44
Login ==
  /\ pc = "login"
  /\ \/ /\ pc' = "send"
        /\ UNCHANGED <<exc, outcomes>>
     \/ /\ exc' = TRUE
        /\ outcomes' = Append(outcomes, "login")
        /\ pc' = "with_exit"
  /\ UNCHANGED <<cfgVars, template, idx, sent, failed, exit_code, rowVars,
                 msg, attempt, ok, tries, sleeps, waited, delivered,
                 open, connects, dry_printed, body2>>

\* line 45
SendMessage ==
  /\ pc = "send"
  /\ \/ /\ delivered' = delivered + 1
        /\ exc' = FALSE
        /\ outcomes' = Append(outcomes, "ok")
        /\ pc' = "with_exit"
     \/ /\ exc' = TRUE
        /\ outcomes' = Append(outcomes, "send")
        /\ pc' = "with_exit"
        /\ UNCHANGED delivered
  /\ UNCHANGED <<cfgVars, template, idx, sent, failed, exit_code, rowVars,
                 msg, attempt, ok, tries, sleeps, waited,
                 open, connects, dry_printed, body2>>

\* Variant of WithExit: the session is closed on the success path only.
WithExit_Leak ==
  /\ pc = "with_exit"
  /\ open' = IF exc THEN open ELSE open - 1
  /\ pc' = IF exc THEN "except" ELSE "return_true"
  /\ UNCHANGED <<cfgVars, template, idx, sent, failed, exit_code, rowVars,
                 callVars, connects, dry_printed, body2>>

\* line 42: leaving the with-block releases the session on either path
WithExit ==
  /\ pc = "with_exit"
  /\ open' = open - 1
  /\ pc' = IF exc THEN "except" ELSE "return_true"
  /\ UNCHANGED <<cfgVars, template, idx, sent, failed, exit_code, rowVars,
                 callVars, connects, dry_printed, body2>>

\* Variant of ReturnTrue: the return sits after the loop, so a successful
\* attempt is followed by the next iteration.
ReturnTrue_Continue ==
  /\ pc = "return_true"
  /\ IF attempt < RETRY_COUNT
       THEN attempt' = attempt + 1 /\ pc' = "connect" /\ UNCHANGED ok
       ELSE ok' = "True" /\ pc' = "after_send" /\ UNCHANGED attempt
  /\ UNCHANGED <<cfgVars, template, idx, sent, failed, exit_code, rowVars,
                 msg, exc, tries, sleeps, waited, delivered, outcomes,
                 open, connects, dry_printed, body2>>

\* line 46
ReturnTrue ==
  /\ pc = "return_true"
  /\ ok' = "True"
  /\ pc' = "after_send"
  /\ UNCHANGED <<cfgVars, template, idx, sent, failed, exit_code, rowVars,
                 msg, attempt, exc, tries, sleeps, waited, delivered, outcomes,
                 open, connects, dry_printed, body2>>

\* Variant of Except: the retry test is off by one.
Except_OffByOne ==
  /\ pc = "except"
  /\ IF attempt < RETRY_COUNT - 1
       THEN pc' = "sleep" /\ UNCHANGED ok
       ELSE pc' = "after_send" /\ ok' = "False"
  /\ UNCHANGED <<cfgVars, template, idx, sent, failed, exit_code, rowVars,
                 msg, attempt, exc, tries, sleeps, waited, delivered, outcomes,
                 open, connects, dry_printed, body2>>

\* Variant of Except: the last failure is re-raised instead of returned.
Except_Reraise ==
  /\ pc = "except"
  /\ IF attempt < RETRY_COUNT
       THEN pc' = "sleep"
       ELSE pc' = "uncaught"
  /\ UNCHANGED <<cfgVars, template, idx, sent, failed, exit_code, rowVars,
                 callVars, open, connects, dry_printed, body2>>

\* lines 47-53, the except clause up to the sleep or the return
Except ==
  /\ pc = "except"
  /\ IF attempt < RETRY_COUNT
       THEN pc' = "sleep" /\ UNCHANGED ok
       ELSE pc' = "after_send" /\ ok' = "False"
  /\ UNCHANGED <<cfgVars, template, idx, sent, failed, exit_code, rowVars,
                 msg, attempt, exc, tries, sleeps, waited, delivered, outcomes,
                 open, connects, dry_printed, body2>>

\* line 50 and the next iteration of line 40
Sleep ==
  /\ pc = "sleep"
  /\ sleeps' = Append(sleeps, attempt)
  /\ waited' = waited + RETRY_DELAY
  /\ attempt' = attempt + 1
  /\ exc' = FALSE
  /\ pc' = "connect"
  /\ UNCHANGED <<cfgVars, template, idx, sent, failed, exit_code, rowVars,
                 msg, ok, tries, delivered, outcomes,
                 open, connects, dry_printed, body2>>

\* Variant of AfterSend: a failed delivery is not counted.
AfterSend_DropFailed ==
  /\ pc = "after_send"
  /\ IF ok = "True"
       THEN sent' = sent + 1 /\ UNCHANGED failed
       ELSE UNCHANGED <<sent, failed>>
  /\ pc' = "next_row"
  /\ UNCHANGED <<cfgVars, template, idx, exit_code, rowVars, callVars,
                 open, connects, dry_printed, body2>>

\* lines 123-127
AfterSend ==
  /\ pc = "after_send"
  /\ IF ok = "True"
       THEN sent' = sent + 1 /\ UNCHANGED failed
       ELSE failed' = failed + 1 /\ UNCHANGED sent
  /\ pc' = "next_row"
  /\ UNCHANGED <<cfgVars, template, idx, exit_code, rowVars, callVars,
                 open, connects, dry_printed, body2>>

\* Variant of Report: the final status ignores the failed counter.
Report_AlwaysZero ==
  /\ pc = "next_row"
  /\ idx = Len(files.rows)
  /\ exit_code' = 0
  /\ pc' = "exit"
  /\ UNCHANGED <<cfgVars, template, idx, sent, failed, rowVars, callVars,
                 open, connects, dry_printed, body2>>

\* lines 129-131, reached when the reader is exhausted
Report ==
  /\ pc = "next_row"
  /\ idx = Len(files.rows)
  /\ exit_code' = IF failed > 0 THEN 1 ELSE 0
  /\ pc' = "exit"
  /\ UNCHANGED <<cfgVars, template, idx, sent, failed, rowVars, callVars,
                 open, connects, dry_printed, body2>>

Next ==
  \/ CheckConfig
  \/ CheckInput
  \/ CheckTemplate
  \/ ProcessRow
  \/ Connect
  \/ Starttls
  \/ Login
  \/ SendMessage
  \/ WithExit
  \/ ReturnTrue
  \/ Except
  \/ Sleep
  \/ AfterSend
  \/ Report

Spec == Init /\ [][Next]_vars

\* ------------------------------------------------- the rendering harness
\* Templates are built from up to MaxPieces pieces; the run is a dry run over
\* one row, followed by one more rendering of the body it produced.
Pieces ==
  { <<"$">>, <<"$","{">>, <<"}">>, <<" ">>,
    K_vendor, K_flag, <<"n","o","p","e">> }

RECURSIVE Flatten(_)
Flatten(ps) == IF ps = <<>> THEN <<>> ELSE Head(ps) \o Flatten(Tail(ps))

Templates == {Flatten(ps) : ps \in SeqsUpTo(Pieces, MaxPieces)}

RenderRows ==
  { (K_contact_email :> T_a) @@ r :
      r \in { <<>> @@ v @@ f :
                v \in { <<>>, (K_vendor :> <<"A","c","m","e">>),
                        (K_vendor :> <<"$","f","l","a","g">>) },
                f \in { <<>>, (K_flag :> <<"R","E","D">>),
                        (K_flag :> K_vendor) } } }

InitRender ==
  /\ env = [SMTP_HOST |-> None, SMTP_USER |-> None, SMTP_PASS |-> None,
            FROM_EMAIL |-> None, DRY_RUN |-> <<"1">>]
  /\ args = [dry_run |-> FALSE, to_column |-> K_contact_email,
             vendor_column |-> K_vendor]
  /\ files \in [ input_exists : {TRUE},
                 template_exists : {TRUE},
                 template_text : Templates,
                 rows : {<<r>> : r \in RenderRows} ]
  /\ pc = "check_config"
  /\ template = None
  /\ idx = 0
  /\ sent = 0
  /\ failed = 0
  /\ exit_code = -1
  /\ to_addr = None
  /\ subject = None
  /\ body = None
  /\ body2 = None
  /\ NoCall
  /\ open = 0
  /\ connects = 0
  /\ dry_printed = 0

\* line 106 applied to the body the run has just rendered
Rerender ==
  /\ pc = "exit"
  /\ body /= None
  /\ body2 = None
  /\ body2' = safe_substitute(body,
                 TemplateVars(files.rows[idx], args.vendor_column))
  /\ UNCHANGED <<cfgVars, pc, template, idx, sent, failed, exit_code,
                 rowVars, callVars, open, connects, dry_printed>>

NextRender ==
  \/ CheckConfig
  \/ CheckInput
  \/ CheckTemplate
  \/ ProcessRow
  \/ Report
  \/ Rerender

SpecRender == InitRender /\ [][NextRender]_vars

\* ---------------------------------------------------------- vocabulary
\* The conditions of the properties below are spelled on the raw inputs.
DryRequested ==
  args.dry_run \/ env["DRY_RUN"] \in {<<"1">>, <<"T","r","u","e">>, <<"y","e","s">>}

SettingsMissing ==
  \E k \in {"SMTP_HOST", "SMTP_USER", "SMTP_PASS"} : env[k] \in {None, <<>>}

FilesMissing == ~files.input_exists \/ ~files.template_exists

AllAbsentOrEmpty(row) ==
  \A k \in {args.to_column, K_email, K_contact} :
    k \notin DOMAIN row \/ row[k] = <<>>

ResolvableUpTo(k) ==
  Cardinality({i \in 1..k : ~AllAbsentOrEmpty(files.rows[i])})

CallPcs ==
  {"connect", "starttls", "login", "send", "with_exit", "return_true",
   "except", "sleep"}
InCall == pc \in CallPcs
NormalPcs ==
  {"check_config", "check_input", "check_template", "next_row", "after_send",
   "exit"} \cup CallPcs

NoSuccess == \A i \in DOMAIN outcomes : outcomes[i] /= "ok"

VarSet ==
  {K_vendor, K_score, K_avg_delivery_lag, K_late_po_pct, K_price_cv, K_flag}

Contains(t, sub) ==
  \E i \in 1..(Len(t) - Len(sub) + 1) : SubSeq(t, i, i + Len(sub) - 1) = sub

\* t holds a "$$" escape or a placeholder naming one of the variables
Substitutable(t) ==
  \/ Contains(t, <<"$","$">>)
  \/ \E n \in VarSet :
       Contains(t, <<"$">> \o n) \/ Contains(t, <<"$","{">> \o n \o <<"}">>)

\* Ranking functions: every step of a call, and of the row loop, lowers them.
CallRank ==
  CASE pc = "connect" -> 7
    [] pc = "starttls" -> 6
    [] pc = "login" -> 5
    [] pc = "send" -> 4
    [] pc = "with_exit" -> 3
    [] pc = "except" -> 2
    [] pc = "return_true" -> 2
    [] pc = "sleep" -> 1
    [] OTHER -> 0
CallMeasure ==
  IF InCall THEN (RETRY_COUNT - attempt) * 8 + CallRank + 1
  ELSE IF pc = "after_send" THEN 1 ELSE 0
RunMeasure ==
  IF pc = "exit" THEN 0
  ELSE (Len(files.rows) - idx) * (8 * RETRY_COUNT + 2) + CallMeasure + 1

\* ------------------------------------------------------------ properties

\* C1: when every attempt of a send_email call fails, the call makes exactly 3
\* attempts and returns False; the delay is applied after attempts 1 and 2 and
\* never after the final attempt.
C1_RetryExhaustion ==
  /\ \A i \in DOMAIN sleeps : sleeps[i] < 3
  /\ (pc = "after_send" /\ NoSuccess) =>
       /\ ok = "False"
       /\ tries = 3
       /\ Len(outcomes) = 3
       /\ sleeps = <<1, 2>>
       /\ waited = 2 * RETRY_DELAY

C1_Witness ==
  /\ pc = "after_send"
  /\ outcomes = <<"connect", "login", "send">>
  /\ ok = "False"
  /\ sleeps = <<1, 2>>

\* C2: in dry-run mode (flag or truthy DRY_RUN) no SMTP connection is ever
\* attempted or open, and after k rows sent equals the number of rows among
\* them with a resolvable recipient, the others being counted as failed.
C2_DryRunNoNetwork ==
  DryRequested =>
    /\ connects = 0
    /\ open = 0
    /\ ~InCall
    /\ sent = ResolvableUpTo(idx)
    /\ dry_printed = sent
    /\ failed = idx - ResolvableUpTo(idx)

C2_Witness ==
  /\ env["DRY_RUN"] = <<"T","r","u","e">>
  /\ ~args.dry_run
  /\ pc = "exit"
  /\ sent = 1
  /\ failed = 1
  /\ connects = 0

\* C3: the step that takes a row whose three recipient columns are all absent
\* or empty adds one to failed, leaves sent alone, makes no delivery attempt
\* and no dry-run send, and returns to the head of the row loop.
C3_MissingRecipientSkipped ==
  [][ ( /\ pc = "next_row"
        /\ idx < Len(files.rows)
        /\ AllAbsentOrEmpty(files.rows[idx + 1]) )
      => ( /\ idx' = idx + 1
           /\ failed' = failed + 1
           /\ sent' = sent
           /\ connects' = connects
           /\ open' = open
           /\ dry_printed' = dry_printed
           /\ exit_code' = exit_code
           /\ pc' = "next_row" ) ]_vars

C3_Witness ==
  /\ pc = "next_row"
  /\ idx = 2
  /\ AllAbsentOrEmpty(files.rows[1])
  /\ ~AllAbsentOrEmpty(files.rows[2])
  /\ failed = 1
  /\ sent = 1

\* C4: with a setting missing and no dry run, the run ends with status 2
\* before any row is read, any counter changes or any connection is made; in
\* a dry run the missing settings do not abort: status 2 then comes from a
\* missing file only, and with both files present every row is processed.
C4_ConfigAbort ==
  /\ (SettingsMissing /\ ~DryRequested) =>
       /\ pc \in {"check_config", "exit"}
       /\ pc = "exit" => exit_code = 2
       /\ idx = 0
       /\ sent = 0
       /\ failed = 0
       /\ connects = 0
       /\ open = 0
       /\ template = None
  /\ (SettingsMissing /\ DryRequested) =>
       /\ pc /= "exit" => exit_code = -1
       /\ (pc = "exit" /\ exit_code = 2) => FilesMissing
       /\ (pc = "exit" /\ ~FilesMissing) =>
            idx = Len(files.rows) /\ exit_code \in {0, 1}

C4_Witness ==
  /\ SettingsMissing
  /\ ~DryRequested
  /\ ~FilesMissing
  /\ Len(files.rows) = 2
  /\ pc = "exit"
  /\ exit_code = 2

\* C5 as stated: status 2 exactly when configuration or files are missing
\* and the run is not a dry run; else 1 when failed > 0; else 0.
C5_ExitCodeAsStated ==
  pc = "exit" =>
    exit_code = IF (SettingsMissing \/ FilesMissing) /\ ~DryRequested THEN 2
                ELSE IF failed > 0 THEN 1 ELSE 0

\* C5 amended: status 2 when a setting is missing and the run is not a dry
\* run, or when a required file is missing (dry run or not); else 1 when
\* failed > 0; else 0.
C5_ExitCode ==
  pc = "exit" =>
    exit_code = IF (SettingsMissing /\ ~DryRequested) \/ FilesMissing THEN 2
                ELSE IF failed > 0 THEN 1 ELSE 0

C5_Witness ==
  /\ pc = "exit"
  /\ DryRequested
  /\ FilesMissing
  /\ exit_code = 2

\* C6: send_email never raises on a failing connection, STARTTLS, login or
\* transmission: control never reaches an uncaught exception, every step of a
\* call lowers its ranking function and stays in the call until it returns
\* "True" or "False", and after the return the row loop goes on.
C6_NeverRaises ==
  /\ [](pc \in NormalPcs)
  /\ [](pc = "after_send" => ok \in {"True", "False"})
  /\ [][ /\ InCall => /\ CallMeasure' < CallMeasure
                      /\ pc' \in CallPcs \cup {"after_send"}
         /\ pc = "after_send" => pc' = "next_row" ]_vars

C6_Witness ==
  /\ pc = "next_row"
  /\ ok = "False"
  /\ outcomes = <<"connect", "starttls", "login">>

\* C7: at most one session is open, and one is open only between a
\* successful connect and the exit of the with-block: none during the except
\* clause, the delay, the next connect, the return or the row loop.
C7_SessionReleased ==
  /\ open \in {0, 1}
  /\ open = 1 <=> pc \in {"starttls", "login", "send", "with_exit"}

C7_Witness ==
  /\ pc = "sleep"
  /\ outcomes = <<"login">>
  /\ open = 0

\* C8: once the checks have passed the run never ends with status 2, every
\* step lowers the run's ranking function, sent + failed equals the number of
\* rows consumed at every loop head, and at the end all rows are consumed.
C8_RunCompletes ==
  /\ [](template /= None =>
          /\ exit_code \in {-1, 0, 1}
          /\ pc = "next_row" => sent + failed = idx
          /\ pc = "exit" => /\ idx = Len(files.rows)
                            /\ sent + failed = Len(files.rows))
  /\ [][ (template /= None /\ pc /= "exit") => RunMeasure' < RunMeasure ]_vars

C8_Witness ==
  /\ pc = "exit"
  /\ Len(files.rows) = 2
  /\ ok = "False"
  /\ sent = 1
  /\ failed = 1

\* C9 as stated: rendering never raises, leaves a template without anything
\* to substitute verbatim, and rendering the rendered body again yields the
\* same body.
C9_RenderIdempotentAsStated ==
  /\ body /= None =>
       /\ ~Raised(body)
       /\ ~Substitutable(template) => body = template
  /\ body2 /= None => body2 = body

\* C9 amended: rendering never raises and leaves a template without a "$$"
\* escape or a placeholder of the variable set verbatim (placeholders outside
\* the set included); rendering the rendered body again yields the same body
\* when that body holds no "$$" and no placeholder of the variable set.
C9_RenderTolerant ==
  /\ body /= None =>
       /\ ~Raised(body)
       /\ ~Substitutable(template) => body = template
  /\ body2 /= None =>
       /\ ~Raised(body2)
       /\ ~Substitutable(body) => body2 = body

C9_Witness ==
  /\ body2 /= None
  /\ Contains(template, <<"$","n","o","p","e">>)
  /\ Contains(body, <<"$","n","o","p","e">>)
  /\ ~Substitutable(body)
  /\ body2 = body

====
